---- MODULE Spec2Model ----
(***************************************************************************)
(* Model of Krakefaction.py: one call of run(untranslatedLocation,         *)
(* translatedLocation, outputLocation, rate).                              *)
(*                                                                         *)
(* Text is modelled as sequences of one-character strings, so that         *)
(* str.startswith, str.split("|") and str.strip().split() are computed     *)
(* character by character.  Rates and random numbers are exact rationals   *)
(* [n |-> numerator, d |-> denominator] with d > 0; floating-point         *)
(* rounding of i * rate is not modelled.                                   *)
(***************************************************************************)
EXTENDS Integers, Sequences, FiniteSets, TLC

VARIABLES
    untranslatedIsFile,\* os.path.isfile(untranslatedLocation)
    translatedIsFile,  \* os.path.isfile(translatedLocation)
    untranslatedFile,  \* lines of the untranslated Kraken file
    translatedFile,    \* lines of the translated Kraken file
    rateArg,           \* the rate argument run() was called with (None if absent)
    rate,              \* run()'s local variable rate
    pc,                \* position inside run() / generateRarefaction()
    error,             \* the exception that ended the run, "none" if none
    outputOpened,      \* TRUE once open(outputLocation, 'w') was executed
    output,            \* rows written by writeResults
    samples,           \* run()'s list of Sample objects
    linesRead,         \* number of lines the for loop took from untranslatedFile
    translatedPos,     \* number of lines consumed from translatedFile
    rankings,          \* generateRarefaction()'s local variable rankings
    draws              \* the values random.random() returned, in order

vars == <<untranslatedIsFile, translatedIsFile, untranslatedFile, translatedFile, rateArg, rate, pc, error,
          outputOpened, output, samples, linesRead, translatedPos, rankings,
          draws>>

(***************************************************************************)
(* Bounds of the model.                                                    *)
(***************************************************************************)
MaxLines == 2      \* longest untranslated file
MaxRecords == 2    \* longest translated file
MaxNum == 2        \* largest numerator of a rate argument
MaxDen == 3        \* largest denominator of a rate argument
DrawDen == 2       \* random.random() returns j / DrawDen, 0 <= j < DrawDen

(***************************************************************************)
(* Globals of the program.                                                 *)
(***************************************************************************)
CLASSIFIED == "C"

DEFAULT_RATE == [n |-> 1, d |-> 20]

DOMAIN_ == <<"d">>

PHYLUM == <<"p">>

CLASS == <<"c">>

ORDER == <<"o">>

FAMILY == <<"f">>

GENERA == <<"g">>

SPECIES == <<"s">>

SUBSPECIES == <<"s", "1">>

KRAKEN_SEPARATOR == <<"_", "_">>

\* the value of an absent rate argument (no rate has denominator 0)
None == [n |-> 0, d |-> 0]

\* the value of the local variable rankings before its first assignment
Unbound == << <<"unbound">> >>

(***************************************************************************)
(* Rational arithmetic on [n, d] records (d > 0).                          *)
(***************************************************************************)
LessEq(x, y) == x.n * y.d <= y.n * x.d

Less(x, y) == x.n * y.d < y.n * x.d

Times(i, r) == [n |-> i * r.n, d |-> r.d]

(***************************************************************************)
(* String functions.                                                       *)
(***************************************************************************)
Whitespace == {" ", "\t", "\n"}

startswith(s, prefix) ==
    /\ Len(prefix) <= Len(s)
    /\ SubSeq(s, 1, Len(prefix)) = prefix

RECURSIVE lstrip(_)
lstrip(s) ==
    IF s # <<>> /\ Head(s) \in Whitespace THEN lstrip(Tail(s)) ELSE s

RECURSIVE rstrip(_)
rstrip(s) ==
    IF s # <<>> /\ s[Len(s)] \in Whitespace
    THEN rstrip(SubSeq(s, 1, Len(s) - 1))
    ELSE s

strip(s) == rstrip(lstrip(s))

\* str.split(): split on runs of whitespace, no empty strings in the result
RECURSIVE splitWhitespace(_, _, _)
splitWhitespace(s, cur, acc) ==
    IF s = <<>>
    THEN IF cur = <<>> THEN acc ELSE Append(acc, cur)
    ELSE IF Head(s) \in Whitespace
         THEN splitWhitespace(Tail(s), <<>>,
                              IF cur = <<>> THEN acc ELSE Append(acc, cur))
         ELSE splitWhitespace(Tail(s), Append(cur, Head(s)), acc)

\* str.split(sep): every separator splits, empty strings are kept
RECURSIVE splitOn(_, _, _, _)
splitOn(s, sep, cur, acc) ==
    IF s = <<>>
    THEN Append(acc, cur)
    ELSE IF Head(s) = sep
         THEN splitOn(Tail(s), sep, <<>>, Append(acc, cur))
         ELSE splitOn(Tail(s), sep, Append(cur, Head(s)), acc)

(***************************************************************************)
(* class Sample                                                            *)
(***************************************************************************)
EmptyDictionary == [rank \in {} |-> 0]

Sample(r) ==
    [rate |-> r,
     numberOfReads |-> 0,
     domainDictionary |-> EmptyDictionary,
     phylumDictionary |-> EmptyDictionary,
     classDictionary |-> EmptyDictionary,
     orderDictionary |-> EmptyDictionary,
     familyDictionary |-> EmptyDictionary,
     generaDictionary |-> EmptyDictionary,
     speciesDictionary |-> EmptyDictionary,
     subspeciesDictionary |-> EmptyDictionary]

\* a bug: the separator is left out of the prefix test
RECURSIVE updateDictionaryNoSeparator(_, _, _)
updateDictionaryNoSeparator(dictionary, ranks, label) ==
    IF ranks = <<>>
    THEN dictionary
    ELSE LET rank == Head(ranks)
             updated ==
                 IF startswith(rank, label)
                 THEN IF rank \in DOMAIN dictionary
                      THEN [dictionary EXCEPT ![rank] = @ + 1]
                      ELSE dictionary @@ (rank :> 1)
                 ELSE dictionary
         IN  updateDictionaryNoSeparator(updated, Tail(ranks), label)

RECURSIVE updateDictionary(_, _, _)
updateDictionary(dictionary, ranks, label) ==
    IF ranks = <<>>
    THEN dictionary
    ELSE LET rank == Head(ranks)
             updated ==
                 IF startswith(rank, label \o KRAKEN_SEPARATOR)
                 THEN IF rank \in DOMAIN dictionary
                      THEN [dictionary EXCEPT ![rank] = @ + 1]
                      ELSE dictionary @@ (rank :> 1)
                 ELSE dictionary
         IN  updateDictionary(updated, Tail(ranks), label)

updateDictionaries(sample, ranks) ==
    [sample EXCEPT
       !.domainDictionary = updateDictionary(@, ranks, DOMAIN_),
       !.phylumDictionary = updateDictionary(@, ranks, PHYLUM),
       !.classDictionary = updateDictionary(@, ranks, CLASS),
       !.orderDictionary = updateDictionary(@, ranks, ORDER),
       !.familyDictionary = updateDictionary(@, ranks, FAMILY),
       !.generaDictionary = updateDictionary(@, ranks, GENERA),
       !.speciesDictionary = updateDictionary(@, ranks, SPECIES),
       !.subspeciesDictionary = updateDictionary(@, ranks, SUBSPECIES)]

(***************************************************************************)
(* generateRarefaction: the pieces of one iteration of the for loop        *)
(***************************************************************************)
\* a bug: the translated file is advanced for every read
isClassifiedAlways(untranslatedLine) == TRUE

\* line 325: is the read classified?
isClassified(untranslatedLine) == untranslatedLine[1] = CLASSIFIED

\* file.readline(): the next line and the new position, "" at end of file
readline(file, pos) ==
    IF pos < Len(file)
    THEN [line |-> file[pos + 1], pos |-> pos + 1]
    ELSE [line |-> <<>>, pos |-> pos]

\* a bug: a translation without its tokens is taken as an empty rank path
tokenizeLenient(translatedLine) ==
    LET tokens == splitWhitespace(strip(translatedLine), <<>>, <<>>)
    IN  IF Len(tokens) < 2
        THEN [raised |-> FALSE, rankings |-> <<>>]
        ELSE [raised |-> FALSE,
              rankings |-> splitOn(strip(tokens[2]), "|", <<>>, <<>>)]

\* lines 331-335: tokens[0] and tokens[1] raise IndexError when missing
tokenize(translatedLine) ==
    LET tokens == splitWhitespace(strip(translatedLine), <<>>, <<>>)
    IN  IF Len(tokens) < 2
        THEN [raised |-> TRUE, rankings |-> Unbound]
        ELSE [raised |-> FALSE,
              rankings |-> splitOn(strip(tokens[2]), "|", <<>>, <<>>)]

\* a bug: the comparison is turned around
includedReversed(number, sample) == LessEq(sample.rate, number)

\* line 342: is the read added to the subsample?
included(number, sample) == LessEq(number, sample.rate)

\* a bug: the read is counted inside the test for a classified read
sampleLoopClassifiedOnly(smpls, number, untranslatedLine, ranks) ==
    [i \in DOMAIN smpls |->
        IF included(number, smpls[i])
        THEN IF untranslatedLine[1] = CLASSIFIED
             THEN updateDictionaries(
                      [smpls[i] EXCEPT !.numberOfReads = @ + 1], ranks)
             ELSE smpls[i]
        ELSE smpls[i]]

\* a bug: the rank path is applied whenever one was read before
sampleLoopStale(smpls, number, untranslatedLine, ranks) ==
    [i \in DOMAIN smpls |->
        IF included(number, smpls[i])
        THEN LET counted == [smpls[i] EXCEPT !.numberOfReads = @ + 1]
             IN  IF ranks # Unbound
                 THEN updateDictionaries(counted, ranks)
                 ELSE counted
        ELSE smpls[i]]

\* lines 338-349: operate on each sampling rate
sampleLoop(smpls, number, untranslatedLine, ranks) ==
    [i \in DOMAIN smpls |->
        IF included(number, smpls[i])
        THEN LET counted == [smpls[i] EXCEPT !.numberOfReads = @ + 1]
             IN  IF untranslatedLine[1] = CLASSIFIED
                 THEN updateDictionaries(counted, ranks)
                 ELSE counted
        ELSE smpls[i]]

(***************************************************************************)
(* writeResults: one row per statistic, one column per sample              *)
(***************************************************************************)
size(dictionary) == Cardinality(DOMAIN dictionary)

writeResults(smpls) ==
    << [label |-> "rates", values |-> [i \in DOMAIN smpls |-> smpls[i].rate]],
       [label |-> "reads",
        values |-> [i \in DOMAIN smpls |-> smpls[i].numberOfReads]],
       [label |-> "domains",
        values |-> [i \in DOMAIN smpls |-> size(smpls[i].domainDictionary)]],
       [label |-> "phylums",
        values |-> [i \in DOMAIN smpls |-> size(smpls[i].phylumDictionary)]],
       [label |-> "classes",
        values |-> [i \in DOMAIN smpls |-> size(smpls[i].classDictionary)]],
       [label |-> "orders",
        values |-> [i \in DOMAIN smpls |-> size(smpls[i].orderDictionary)]],
       [label |-> "families",
        values |-> [i \in DOMAIN smpls |-> size(smpls[i].familyDictionary)]],
       [label |-> "genera",
        values |-> [i \in DOMAIN smpls |-> size(smpls[i].generaDictionary)]],
       [label |-> "species",
        values |-> [i \in DOMAIN smpls |-> size(smpls[i].speciesDictionary)]],
       [label |-> "subspecies",
        values |->
            [i \in DOMAIN smpls |-> size(smpls[i].subspeciesDictionary)]] >>

(***************************************************************************)
(* The inputs of a run.                                                    *)
(***************************************************************************)
UntranslatedLines == { <<"C", "\n">>, <<"U", "\n">> }

\* "r\td__A|s__X\n"
TranslationA ==
    <<"r", "\t", "d", "_", "_", "A", "|", "s", "_", "_", "X", "\n">>

\* "r\td__A|d__B|s1__Y\n"
TranslationB ==
    <<"r", "\t", "d", "_", "_", "A", "|", "d", "_", "_", "B", "|",
      "s", "1", "_", "_", "Y", "\n">>

\* "r\n": the rank path is missing
TranslationShort == <<"r", "\n">>

TranslatedLines == { TranslationA, TranslationB, TranslationShort }

SeqsUpTo(S, max) == UNION { [1..k -> S] : k \in 0..max }

\* absent, negative, zero, and a / b for small a and b (some above 1)
RateArguments ==
    {None, [n |-> -1, d |-> 1], [n |-> 0, d |-> 1]}
        \cup { [n |-> a, d |-> b] : a \in 1..MaxNum, b \in 1..MaxDen }

\* the values random.random() can return, all in [0, 1)
Draws == { [n |-> j, d |-> DrawDen] : j \in 0..(DrawDen - 1) }

Init ==
    /\ untranslatedIsFile \in BOOLEAN
    /\ translatedIsFile \in BOOLEAN
    /\ untranslatedFile \in IF untranslatedIsFile
                            THEN SeqsUpTo(UntranslatedLines, MaxLines)
                            ELSE {<<>>}
    /\ translatedFile \in IF translatedIsFile
                          THEN SeqsUpTo(TranslatedLines, MaxRecords)
                          ELSE {<<>>}
    /\ rateArg \in RateArguments
    /\ rate = rateArg
    /\ pc = "start"
    /\ error = "none"
    /\ outputOpened = FALSE
    /\ output = <<>>
    /\ samples = <<>>
    /\ linesRead = 0
    /\ translatedPos = 0
    /\ rankings = Unbound
    /\ draws = <<>>

(***************************************************************************)
(* run                                                                     *)
(***************************************************************************)
\* Python's "not rate": None and 0.0 are both false
notRate(r) == r = None \/ r.n = 0

\* line 525: rate <= 0 or rate > 1
outOfBounds(r) == r.n <= 0 \/ r.n > r.d

\* lines 510-527: check the input files, default the rate, check the rate
CheckArguments ==
    /\ pc = "start"
    /\ IF ~untranslatedIsFile \/ ~translatedIsFile
       THEN /\ pc' = "error"
            /\ error' = "RuntimeError"
            /\ rate' = rate
       ELSE LET r == IF notRate(rate) THEN DEFAULT_RATE ELSE rate
            IN  /\ rate' = r
                /\ IF outOfBounds(r)
                   THEN pc' = "error" /\ error' = "RuntimeError"
                   ELSE pc' = "open" /\ error' = error
    /\ UNCHANGED <<untranslatedIsFile, translatedIsFile, untranslatedFile,
                   translatedFile, rateArg, outputOpened,
                   output, samples, linesRead, translatedPos, rankings, draws>>

\* line 530: open the output file
OpenOutput ==
    /\ pc = "open"
    /\ outputOpened' = TRUE
    /\ pc' = "init"
    /\ UNCHANGED <<untranslatedIsFile, translatedIsFile, untranslatedFile,
                   translatedFile, rateArg, rate, error,
                   output, samples, linesRead, translatedPos, rankings, draws>>

\* a bug: range(0, samplingPoints)
initialSamplesFromZero(r) ==
    LET samplingPoints == r.d \div r.n
    IN  [k \in 1..samplingPoints |-> Sample(Times(k - 1, r))]

\* lines 533-538: int(1 / float(rate)) samples with rates i * rate
initialSamples(r) ==
    LET samplingPoints == r.d \div r.n
    IN  [i \in 1..samplingPoints |-> Sample(Times(i, r))]

\* lines 532-538 and the call of generateRarefaction up to its loop
InitializeSamples ==
    /\ pc = "init"
    /\ samples' = initialSamples(rate)
    /\ pc' = "loop"
    /\ UNCHANGED <<untranslatedIsFile, translatedIsFile, untranslatedFile,
                   translatedFile, rateArg, rate, error,
                   outputOpened, output, linesRead, translatedPos, rankings,
                   draws>>

\* a bug: random.random() is called inside the loop over the samples
ReadLinePerSampleDraw ==
    /\ pc = "loop"
    /\ linesRead < Len(untranslatedFile)
    /\ \E numbers \in [DOMAIN samples -> Draws] :
         LET untranslatedLine == untranslatedFile[linesRead + 1]
             read == IF isClassified(untranslatedLine)
                     THEN readline(translatedFile, translatedPos)
                     ELSE [line |-> <<>>, pos |-> translatedPos]
             parsed == IF isClassified(untranslatedLine)
                       THEN tokenize(read.line)
                       ELSE [raised |-> FALSE, rankings |-> rankings]
         IN  /\ linesRead' = linesRead + 1
             /\ draws' = draws \o numbers
             /\ translatedPos' = read.pos
             /\ IF parsed.raised
                THEN /\ pc' = "error"
                     /\ error' = "IndexError"
                     /\ UNCHANGED <<rankings, samples>>
                ELSE /\ rankings' = parsed.rankings
                     /\ samples' =
                          [i \in DOMAIN samples |->
                              sampleLoop(samples, numbers[i], untranslatedLine,
                                         parsed.rankings)[i]]
                     /\ UNCHANGED <<pc, error>>
    /\ UNCHANGED <<untranslatedIsFile, translatedIsFile, untranslatedFile,
                   translatedFile, rateArg, rate,
                   outputOpened, output>>

\* lines 316-349: one iteration of the loop over the untranslated file
ReadLine ==
    /\ pc = "loop"
    /\ linesRead < Len(untranslatedFile)
    /\ \E number \in Draws :
         LET untranslatedLine == untranslatedFile[linesRead + 1]
             read == IF isClassified(untranslatedLine)
                     THEN readline(translatedFile, translatedPos)
                     ELSE [line |-> <<>>, pos |-> translatedPos]
             parsed == IF isClassified(untranslatedLine)
                       THEN tokenize(read.line)
                       ELSE [raised |-> FALSE, rankings |-> rankings]
         IN  /\ linesRead' = linesRead + 1
             /\ draws' = Append(draws, number)
             /\ translatedPos' = read.pos
             /\ IF parsed.raised
                THEN /\ pc' = "error"
                     /\ error' = "IndexError"
                     /\ UNCHANGED <<rankings, samples>>
                ELSE /\ rankings' = parsed.rankings
                     /\ samples' = sampleLoop(samples, number,
                                              untranslatedLine, parsed.rankings)
                     /\ UNCHANGED <<pc, error>>
    /\ UNCHANGED <<untranslatedIsFile, translatedIsFile, untranslatedFile,
                   translatedFile, rateArg, rate,
                   outputOpened, output>>

\* a bug that is not in the code: leftover translations are an error
CloseInputsChecked ==
    /\ pc = "loop"
    /\ linesRead = Len(untranslatedFile)
    /\ IF translatedPos < Len(translatedFile)
       THEN pc' = "error" /\ error' = "StreamDesyncError"
       ELSE pc' = "write" /\ error' = error
    /\ UNCHANGED <<untranslatedIsFile, translatedIsFile, untranslatedFile,
                   translatedFile, rateArg, rate,
                   outputOpened, output, samples, linesRead, translatedPos,
                   rankings, draws>>

\* lines 351-353: the loop is over, close the input files
CloseInputs ==
    /\ pc = "loop"
    /\ linesRead = Len(untranslatedFile)
    /\ pc' = "write"
    /\ UNCHANGED <<untranslatedIsFile, translatedIsFile, untranslatedFile,
                   translatedFile, rateArg, rate, error,
                   outputOpened, output, samples, linesRead, translatedPos,
                   rankings, draws>>

\* lines 542-545: write the results and close the output file
WriteResults ==
    /\ pc = "write"
    /\ output' = writeResults(samples)
    /\ pc' = "done"
    /\ UNCHANGED <<untranslatedIsFile, translatedIsFile, untranslatedFile,
                   translatedFile, rateArg, rate, error,
                   outputOpened, samples, linesRead, translatedPos, rankings,
                   draws>>

Next ==
    \/ CheckArguments
    \/ OpenOutput
    \/ InitializeSamples
    \/ ReadLine
    \/ CloseInputs
    \/ WriteResults

Spec == Init /\ [][Next]_vars

(***************************************************************************)
(* Vocabulary of the properties.  The expected values are stated from the  *)
(* input files and the draws, not from the program's parsing.              *)
(***************************************************************************)
labels ==
    <<DOMAIN_, PHYLUM, CLASS, ORDER, FAMILY, GENERA, SPECIES, SUBSPECIES>>

dictionaries(sample) ==
    <<sample.domainDictionary, sample.phylumDictionary,
      sample.classDictionary, sample.orderDictionary,
      sample.familyDictionary, sample.generaDictionary,
      sample.speciesDictionary, sample.subspeciesDictionary>>

TokenDA == <<"d", "_", "_", "A">>

TokenDB == <<"d", "_", "_", "B">>

TokenSX == <<"s", "_", "_", "X">>

TokenS1Y == <<"s", "1", "_", "_", "Y">>

\* the rank path written in a line of the translated file
rankPath(translatedLine) ==
    IF translatedLine = TranslationA THEN <<TokenDA, TokenSX>>
    ELSE IF translatedLine = TranslationB THEN <<TokenDA, TokenDB, TokenS1Y>>
    ELSE <<>>

hasRankPath(translatedLine) == translatedLine \in {TranslationA, TranslationB}

\* the rank a token belongs to: the text before its first "__"
carriesPrefix(token, label) ==
    \E k \in 0..Len(token) : SubSeq(token, 1, k) = label \o <<"_", "_">>

\* the lines whose iteration of the loop ran to its end
completed == IF error = "IndexError" THEN linesRead - 1 ELSE linesRead

classifiedLine(k) == untranslatedFile[k][1] = "C"

\* the number of classified lines among the first k untranslated lines
classifiedBefore(k) == Cardinality({ j \in 1..k : classifiedLine(j) })

\* the completed reads whose draw is at most the rate r
readsWithin(r) == { k \in 1..completed : LessEq(draws[k], r) }

\* for each completed read the tokens on its rank path, none if unclassified
\* (the k-th classified line is translated by the k-th translated line)
tokensOfRead ==
    [k \in 1..completed |->
        IF classifiedLine(k)
        THEN LET path == rankPath(translatedFile[classifiedBefore(k)])
             IN  { path[j] : j \in 1..Len(path) }
        ELSE {}]

\* the tokens on the rank paths of a set of reads
tokensOnPaths(perRead, reads) == UNION { perRead[k] : k \in reads }

\* the distinct tokens of rank label among a set of tokens
ofRank(tokens, label) == { token \in tokens : carriesPrefix(token, label) }

passCompleted == pc \in {"write", "done"}

samplesBuilt == pc \in {"loop", "write", "done"} \/ error = "IndexError"

(***************************************************************************)
(* C1 - nested samples: for two samples with rates r1 < r2, every          *)
(* completed read that the loop adds to the r1 sample (draw <= r1) is      *)
(* added to the r2 sample, and the read counts are the sizes of these      *)
(* sets of reads.                                                          *)
(***************************************************************************)
membersOf(i) == { k \in 1..completed : included(draws[k], samples[i]) }

C1_NestedSamples ==
    LET members == [i \in DOMAIN samples |-> membersOf(i)]
    IN  \A i \in DOMAIN samples :
            /\ samples[i].numberOfReads = Cardinality(members[i])
            /\ \A j \in DOMAIN samples :
                 Less(samples[i].rate, samples[j].rate)
                    => /\ members[i] \subseteq members[j]
                       /\ samples[i].numberOfReads <= samples[j].numberOfReads

C1_Witness ==
    /\ pc = "done"
    /\ \E i, j \in DOMAIN samples :
         /\ Less(samples[i].rate, samples[j].rate)
         /\ samples[i].numberOfReads = 1
         /\ samples[j].numberOfReads = 2

(***************************************************************************)
(* C2 - distinct counts: after a completed pass, for every sample and      *)
(* every rank, the size of the rank's dictionary is the number of distinct *)
(* tokens of that rank on the rank paths of the classified reads whose     *)
(* draw is at most the sample's rate.                                      *)
(***************************************************************************)
C2_DistinctCount ==
    passCompleted =>
        LET perRead == tokensOfRead
        IN  \A i \in DOMAIN samples :
                LET tokens ==
                        tokensOnPaths(perRead, readsWithin(samples[i].rate))
                    dicts == dictionaries(samples[i])
                IN  \A r \in 1..8 :
                        size(dicts[r]) = Cardinality(ofRank(tokens, labels[r]))

\* tokens d__A, d__A, d__B were applied to one sample: domain count 2
C2_Witness ==
    /\ pc = "done"
    /\ \E i \in DOMAIN samples :
         /\ DOMAIN samples[i].domainDictionary = {TokenDA, TokenDB}
         /\ samples[i].domainDictionary[TokenDA] = 2
         /\ size(samples[i].speciesDictionary) = 1
         /\ size(samples[i].subspeciesDictionary) = 1

(***************************************************************************)
(* C3 - read count: after a completed pass a sample of rate 1.0 has        *)
(* counted every line of the untranslated file; a rate argument of 1.0     *)
(* gives exactly one sample, which counts every read and every distinct    *)
(* token of the classified reads.                                          *)
(***************************************************************************)
C3_ReadCount ==
    passCompleted =>
        /\ \A i \in DOMAIN samples :
             samples[i].rate.n = samples[i].rate.d
                => samples[i].numberOfReads = Len(untranslatedFile)
        /\ (rateArg.n = rateArg.d /\ rateArg.d > 0)
             => /\ Len(samples) = 1
                /\ samples[1].numberOfReads = Len(untranslatedFile)
                /\ \A r \in 1..8 :
                     size(dictionaries(samples[1])[r]) =
                         Cardinality(ofRank(
                             tokensOnPaths(tokensOfRead,
                                           1..Len(untranslatedFile)),
                             labels[r]))

C3_Witness ==
    /\ pc = "done"
    /\ rateArg = [n |-> 1, d |-> 1]
    /\ untranslatedFile = << <<"U", "\n">>, <<"C", "\n">> >>
    /\ samples[1].numberOfReads = 2
    /\ size(samples[1].domainDictionary) = 2

(***************************************************************************)
(* C4 - sample set, as claimed: once the samples are built there are       *)
(* floor(1/rate) of them with rates rate, 2*rate, ... in increasing order  *)
(* within (0,1], and the last sample's rate is 1.0 for every rate.         *)
(***************************************************************************)
sameRate(x, y) == x.n * y.d = y.n * x.d

sampleSetShape ==
    /\ Len(samples) * rate.n <= rate.d
    /\ rate.d < (Len(samples) + 1) * rate.n
    /\ \A i \in DOMAIN samples :
         /\ sameRate(samples[i].rate, Times(i, rate))
         /\ samples[i].rate.n > 0
         /\ samples[i].rate.n <= samples[i].rate.d
         /\ i < Len(samples) => Less(samples[i].rate, samples[i + 1].rate)

builtBeforeReading ==
    /\ pc \in {"start", "open", "init"}
         => samples = <<>> /\ linesRead = 0 /\ draws = <<>>
    /\ (pc = "error" /\ error = "RuntimeError") => samples = <<>>

C5_UnclassifiedStep ==
    (/\ pc = "loop"
     /\ linesRead < Len(untranslatedFile)
     /\ untranslatedFile[linesRead + 1][1] # "C")
    => /\ linesRead' = linesRead + 1
       /\ Len(draws') = Len(draws) + 1
       /\ DOMAIN samples' = DOMAIN samples
       /\ \A i \in DOMAIN samples :
            /\ samples'[i].numberOfReads =
                 IF LessEq(draws'[Len(draws')], samples[i].rate)
                 THEN samples[i].numberOfReads + 1
                 ELSE samples[i].numberOfReads
            /\ dictionaries(samples'[i]) = dictionaries(samples[i])
            /\ samples'[i].rate = samples[i].rate

C5_UnclassifiedCounted == [][C5_UnclassifiedStep]_vars

\* an unclassified read was counted after a classified one left its rank path
C5_Witness ==
    /\ linesRead = 2
    /\ untranslatedFile = << <<"C", "\n">>, <<"U", "\n">> >>
    /\ rankings # Unbound
    /\ Len(samples) = 3
    /\ samples[1].numberOfReads = 1
    /\ samples[2].numberOfReads = 2
    /\ samples[1].domainDictionary = EmptyDictionary
    /\ size(samples[2].domainDictionary) = 1

(***************************************************************************)
(* C6 - desync detection: an iteration on a classified line whose          *)
(* translation is missing (translated file exhausted) or has no rank path  *)
(* ends the run in an error; the samples are not updated, no later step    *)
(* is taken and no result row is ever written.                             *)
(***************************************************************************)
C6_DesyncStep ==
    (/\ pc = "loop"
     /\ linesRead < Len(untranslatedFile)
     /\ untranslatedFile[linesRead + 1][1] = "C"
     /\ \/ translatedPos >= Len(translatedFile)
        \/ ~hasRankPath(translatedFile[translatedPos + 1]))
    => /\ pc' = "error"
       /\ error' = "IndexError"
       /\ samples' = samples
       /\ output' = <<>>

C6_DesyncDetection ==
    /\ [][C6_DesyncStep]_vars
    /\ [][pc # "error"]_vars
    /\ [](pc = "error" => output = <<>>)

C6_Witness ==
    /\ pc = "error"
    /\ error = "IndexError"
    /\ translatedPos = Len(translatedFile)
    /\ translatedPos = 1
    /\ linesRead = 2
    /\ samples[Len(samples)].numberOfReads = 1
    /\ output = <<>>

(***************************************************************************)
(* C7 - invalid rate rejected: a run called with a rate argument outside   *)
(* (0,1] (zero, negative or greater than 1) never gets past the checks:    *)
(* the output file is not opened, no sample is created, no read is         *)
(* processed.                                                              *)
(***************************************************************************)
C7_InvalidRateRejected ==
    (rateArg # None /\ (rateArg.n <= 0 \/ rateArg.n > rateArg.d))
    => /\ pc \in {"start", "error"}
       /\ ~outputOpened
       /\ samples = <<>>
       /\ linesRead = 0

(***************************************************************************)
(* C8 - single draw per read: the k-th value of random.random() is the     *)
(* draw of the k-th line read, classified or not, whatever the number of   *)
(* samples; every sample's read count and dictionary keys are a function   *)
(* of the two files, the rates and that sequence of draws.                 *)
(***************************************************************************)
C8_SingleDraw ==
    /\ Len(draws) = linesRead
    /\ LET perRead == tokensOfRead
       IN  \A i \in DOMAIN samples :
               LET reads == readsWithin(samples[i].rate)
                   tokens == tokensOnPaths(perRead, reads)
                   dicts == dictionaries(samples[i])
               IN  /\ samples[i].numberOfReads = Cardinality(reads)
                   /\ \A r \in 1..8 :
                        DOMAIN dicts[r] = ofRank(tokens, labels[r])

C8_Witness ==
    /\ pc = "done"
    /\ Len(samples) = 3
    /\ untranslatedFile = << <<"U", "\n">>, <<"C", "\n">> >>
    /\ ~LessEq(draws[1], samples[1].rate)
    /\ LessEq(draws[2], samples[1].rate)
    /\ samples[1].numberOfReads = 1
    /\ samples[2].numberOfReads = 2
    /\ size(samples[1].domainDictionary) = 1

(***************************************************************************)
(* C9 - lockstep: while the run has not failed, the number of lines        *)
(* consumed from the translated file is the number of classified lines     *)
(* read so far, and the rank path in use is the one of the translation of  *)
(* the last classified line; a failed run consumed one line for each       *)
(* classified line but the last when the translated file ran out.          *)
(***************************************************************************)
C9_Lockstep ==
    /\ translatedPos <= Len(translatedFile)
    /\ error # "IndexError"
         => /\ translatedPos = classifiedBefore(linesRead)
            /\ rankings = IF translatedPos = 0
                          THEN Unbound
                          ELSE rankPath(translatedFile[translatedPos])
    /\ error = "IndexError"
         => \/ translatedPos = classifiedBefore(linesRead)
            \/ /\ translatedPos = classifiedBefore(linesRead) - 1
               /\ translatedPos = Len(translatedFile)

C9_Witness ==
    /\ pc = "done"
    /\ untranslatedFile = << <<"U", "\n">>, <<"C", "\n">> >>
    /\ translatedFile = <<TranslationB, TranslationA>>
    /\ translatedPos = 1
    /\ rankings = <<TokenDA, TokenDB, TokenS1Y>>

(***************************************************************************)
(* C10 - as claimed: a run whose untranslated file is exhausted while the  *)
(* translated file still holds unconsumed lines ends in an error and       *)
(* writes no results.                                                      *)
(***************************************************************************)
leftover == translatedPos < Len(translatedFile)

C10_Original ==
    (linesRead = Len(untranslatedFile) /\ leftover)
        => (pc # "done" /\ output = <<>>)

(***************************************************************************)
(* C10 amended - leftover lines of the translated file are not an error:   *)
(* when the untranslated file is exhausted the loop ends without an error  *)
(* and the results are written, the ten rows, whether or not translated    *)
(* lines are left.                                                         *)
(***************************************************************************)
C10_LeftoverStep ==
    /\ (pc = "loop" /\ linesRead = Len(untranslatedFile) /\ leftover)
         => (pc' = "write" /\ error' = "none" /\ samples' = samples)
    /\ (pc = "write" /\ leftover)
         => (pc' = "done" /\ error' = "none" /\ Len(output') = 10)

C10_LeftoverIgnored == [][C10_LeftoverStep]_vars

C10_Witness ==
    /\ pc = "done"
    /\ leftover
    /\ Len(translatedFile) = 2
    /\ translatedPos = 1
    /\ Len(output) = 10
    /\ error = "none"

====
